---- MODULE Spec2Model ----
(***************************************************************************)
(* A model of the Maine State House municipality scraper (src/src/main.py).*)
(*                                                                         *)
(* Text is a sequence of one-character strings.  The alphabet is a set of  *)
(* representatives of the character classes the code distinguishes: a      *)
(* letter ("a", "b", "R"), a digit ("1", "2"), a blank (" "), a line feed  *)
(* ("\n"), the hyphen and the two parentheses.  The keyword "District" is  *)
(* the sequence District below; with the one-token abbreviation <<"D">> it *)
(* behaves as the eight-letter word does (it is matched literally, it is a *)
(* word character for the regular expression, and no other letter of the   *)
(* alphabet is part of it).                                                *)
(***************************************************************************)
EXTENDS Integers, Sequences, FiniteSets, TLC

\* ------------------------------------------------------------------ bounds
\* longest arbitrary text handed to extract_legislator_from_string
MaxLen == 4
\* longest field (town, member or party) that is varied freely in a row text
MaxField == 3

\* ------------------------------------------------------------- text helpers
Max(S) == CHOOSE x \in S : \A y \in S : y <= x
Min(S) == CHOOSE x \in S : \A y \in S : x <= y

\* every sequence over alphabet A of length lo..hi
Strings(A, lo, hi) == UNION {[1..n -> A] : n \in lo..hi}

Empty == << >>

\* the literal keyword of lines 34 and 42
District == <<"D">>

\* Python's \s on the alphabet
SpaceChars == {" ", "\n"}
IsSpace(c) == c \in SpaceChars
\* Python's \d on the alphabet
DigitChars == {"1", "2"}
IsDigit(c) == c \in DigitChars
\* Python's . (anything but a line feed)
Dot(c) == c # "\n"

\* `lit in text`
Contains(text, lit) ==
    \E i \in 1..(Len(text) - Len(lit) + 1) : SubSeq(text, i, i + Len(lit) - 1) = lit

\* re.sub(r"[\r\n]", " ", text)
SubNewlines(text) == [i \in 1..Len(text) |-> IF text[i] = "\n" THEN " " ELSE text[i]]

\* re.sub(r"\s+", " ", text): every maximal run of whitespace becomes one blank
RECURSIVE SubSpaceRuns(_)
SubSpaceRuns(text) ==
    IF text = Empty THEN Empty
    ELSE IF IsSpace(Head(text))
         THEN IF Len(text) > 1 /\ IsSpace(text[2])
              THEN SubSpaceRuns(Tail(text))
              ELSE <<" ">> \o SubSpaceRuns(Tail(text))
         ELSE <<Head(text)>> \o SubSpaceRuns(Tail(text))

\* FormatText without the second substitution
FormatTextNewlinesOnly(text) == SubNewlines(text)

\* lines 37-38
FormatText(text) == SubSpaceRuns(SubNewlines(text))

\* str.strip()
Strip(s) ==
    LET keep == {i \in 1..Len(s) : ~IsSpace(s[i])}
    IN IF keep = {} THEN Empty ELSE SubSeq(s, Min(keep), Max(keep))

\* the position a greedy \s* starting at p stops at
SkipSpace(s, p) == Min({q \in p..(Len(s) + 1) : q > Len(s) \/ ~IsSpace(s[q])})
\* the position a greedy \d* starting at p stops at
SkipDigits(s, p) == Min({q \in p..(Len(s) + 1) : q > Len(s) \/ ~IsDigit(s[q])})
CharAt(s, p, c) == p <= Len(s) /\ s[p] = c
LitAt(s, p, lit) == p + Len(lit) - 1 <= Len(s) /\ SubSeq(s, p, p + Len(lit) - 1) = lit

\* ---------------------------------------------------- the row pattern, line 42
\* r"([\W\w\s()-]+)\s*-\s*District\s+(\d+)\s*-\s*(.+?)\s*\((.+)\)", matched
\* with re.match (anchored at the start of the text only), with the priorities
\* of Python's backtracking matcher.

NoMatch == [matched |-> FALSE]

\* PartyClose for \((.*)\): an empty party group is accepted
PartyCloseStar(s, q) ==
    LET R == {r \in (q + 1)..Len(s) :
                 s[r] = ")" /\ \A j \in (q + 1)..(r - 1) : Dot(s[j])}
    IN IF R = {} THEN 0 ELSE Max(R)

\* \((.+)\) with the "(" at q: the greedy .+ gives back characters until a ")"
\* follows it; 0 when there is none
PartyClose(s, q) ==
    LET R == {r \in (q + 2)..Len(s) :
                 s[r] = ")" /\ \A j \in (q + 1)..(r - 1) : Dot(s[j])}
    IN IF R = {} THEN 0 ELSE Max(R)

\* (.+?)\s*\((.+)\) with the member group on s[b..e]
MemberOk(s, b, e) ==
    /\ \A j \in b..e : Dot(s[j])
    /\ LET q == SkipSpace(s, e + 1)
       IN CharAt(s, q, "(") /\ PartyClose(s, q) # 0

\* MemberMatch with a greedy member group, (.+) for (.+?)
MemberMatchGreedy(s, m) ==
    LET cands == {be \in (m..SkipSpace(s, m)) \X (m..Len(s)) :
                     be[1] <= be[2] /\ MemberOk(s, be[1], be[2])}
    IN IF cands = {} THEN NoMatch
       ELSE LET b == Max({be[1] : be \in cands})
                e == Max({be[2] : be \in {x \in cands : x[1] = b}})
                q == SkipSpace(s, e + 1)
            IN [matched |-> TRUE,
                member |-> SubSeq(s, b, e),
                party |-> SubSeq(s, q + 1, PartyClose(s, q) - 1)]

\* \s*(.+?)\s*\((.+)\) from position m: the greedy \s* is tried longest first,
\* and for each the lazy member group shortest first
MemberMatch(s, m) ==
    LET cands == {be \in (m..SkipSpace(s, m)) \X (m..Len(s)) :
                     be[1] <= be[2] /\ MemberOk(s, be[1], be[2])}
    IN IF cands = {} THEN NoMatch
       ELSE LET b == Max({be[1] : be \in cands})
                e == Min({be[2] : be \in {x \in cands : x[1] = b}})
                q == SkipSpace(s, e + 1)
            IN [matched |-> TRUE,
                member |-> SubSeq(s, b, e),
                party |-> SubSeq(s, q + 1, PartyClose(s, q) - 1)]

\* everything after the town group, when the town group is s[1..i]
TailMatch(s, i) ==
    LET p1 == SkipSpace(s, i + 1)
        p2 == SkipSpace(s, p1 + 1)
        p3 == p2 + Len(District)
        p4 == SkipSpace(s, p3)
        p5 == SkipDigits(s, p4)
        p6 == SkipSpace(s, p5)
    IN IF /\ CharAt(s, p1, "-")
          /\ LitAt(s, p2, District)
          /\ p4 > p3
          /\ p5 > p4
          /\ CharAt(s, p6, "-")
       THEN LET mm == MemberMatch(s, p6 + 1)
            IN IF mm.matched
               THEN [matched |-> TRUE, town |-> SubSeq(s, 1, i),
                     district |-> SubSeq(s, p4, p5 - 1),
                     member |-> mm.member, party |-> mm.party]
               ELSE NoMatch
       ELSE NoMatch

\* the greedy town group takes the longest prefix after which the rest matches
RowMatch(s) ==
    LET ends == {i \in 1..Len(s) : TailMatch(s, i).matched}
    IN IF ends = {} THEN NoMatch ELSE TailMatch(s, Max(ends))

NoFields == <<Empty, Empty, Empty, Empty>>

\* extract_legislator_from_string: (district, town, member, party)
extract_legislator_from_string(text) ==
    IF ~Contains(text, District) THEN NoFields
    ELSE LET match == RowMatch(FormatText(text))
         IN IF ~match.matched THEN NoFields
            ELSE <<Strip(match.district), Strip(match.town),
                   Strip(match.member), Strip(match.party)>>

\* ------------------------------------------------------------------- state
VARIABLES
    text,            \* the argument of extract_legislator_from_string
    shape,           \* the fields the argument was written from, or NoShape
    extracted,       \* what the call returned
    extract_pc,      \* "call" before the call, "done" after it
    urls,            \* the argument of get_most_common_url
    most_common_url, \* what the call returned
    url_pc,          \* "call" before the call, "done" after it
    soup,            \* the parsed document scrape_committees works in
    committees,      \* what scrape_committees returned (or that it raised)
    committees_pc,   \* "call" before the call, "done" after it
    detail_page,     \* the document the detail request answered with
    detail,          \* what scrape_detailed_legislator_info returned, and its log
    detail_pc,       \* "call" before the call, "done" after it
    listing_page,    \* the document the listing request answered with
    legislators,     \* what collect_municipality_data returned (or that it raised)
    listing_pc,      \* "call" before the call, "done" after it
    pagination_page, \* the document the pagination request answered with
    pagination,      \* what get_pagination returned
    pagination_pc,   \* "call" before the call, "done" after it
    pc,              \* where main() is: "pagination", "listing", "details", "done", "aborted"
    letters,         \* main's letters, the pagination keys
    letter_index,    \* the position of the loop of line 225 in letters
    all_municipalities, \* main's list of listing rows
    legislator_urls, \* main's dict member -> detail paths, in insertion order
    legislator_details, \* main's dict member -> (email, phone, committees)
    csv_file,        \* the rows of house_municipality_data.csv, NoFile before it is written
    requests,        \* the requests main has made, in order
    received,        \* the data rows of the listing pages received: <<cell text, href>>
    fetched,         \* the detail pages received: <<member, path, outcome>>
    trace            \* what main has done, in order: sleeps, requests, responses, the write

extractVars == <<text, shape, extracted, extract_pc>>
urlVars == <<urls, most_common_url, url_pc>>
committeeVars == <<soup, committees, committees_pc>>
detailVars == <<detail_page, detail, detail_pc>>
listingVars == <<listing_page, legislators, listing_pc>>
paginationVars == <<pagination_page, pagination, pagination_pc>>
mainVars == <<pc, letters, letter_index, all_municipalities, legislator_urls,
              legislator_details, csv_file, requests, received, fetched, trace>>
vars == <<extractVars, urlVars, committeeVars, detailVars, listingVars, paginationVars,
          mainVars>>

\* the variables of a function that is not being called
IdleExtract == text = Empty /\ shape = <<"none">> /\ extracted = Empty /\ extract_pc = "idle"
IdleUrl == urls = Empty /\ most_common_url = "" /\ url_pc = "idle"
IdleCommittees == soup = Empty /\ committees = Empty /\ committees_pc = "idle"
IdleDetail == detail_page = Empty /\ detail = Empty /\ detail_pc = "idle"
IdleListing == listing_page = Empty /\ legislators = Empty /\ listing_pc = "idle"
IdlePagination ==
    pagination_page = Empty /\ pagination = Empty /\ pagination_pc = "idle"
IdleMain ==
    /\ pc = "idle" /\ letters = Empty /\ letter_index = 0 /\ all_municipalities = Empty
    /\ legislator_urls = Empty /\ legislator_details = Empty /\ csv_file = Empty
    /\ requests = Empty /\ received = Empty /\ fetched = Empty /\ trace = Empty

\* ------------------------------------- inputs of extract_legislator_from_string
Alphabet == {"a", "1", " ", "\n", "-", "(", ")", "D"}

NoShape == <<"none">>

\* "<Town> - District <N> - <Name> (<Party>)"
RowText(town, n, name, party) ==
    town \o <<" ", "-", " ">> \o District \o <<" ">> \o n \o <<" ", "-", " ">>
         \o name \o <<" ", "(">> \o party \o <<")">>

\* a field: any text without a line break
FreeFields == Strings(Alphabet \ {"\n"}, 1, MaxField)
BaseTowns == {<<"a">>}
BaseNames == {<<"b">>}
BaseParties == {<<"R">>, <<"R", " ", "-", " ", "a">>}
Numbers == {<<"1">>, <<"1", "2">>}

\* one field varied freely (the party may also be empty), the others fixed
Shapes ==
    ((FreeFields \X Numbers \X BaseNames \X BaseParties)
        \cup (BaseTowns \X Numbers \X FreeFields \X BaseParties)
        \cup (BaseTowns \X Numbers \X BaseNames \X (FreeFields \cup {Empty})))

\* rows whose blanks are runs of whitespace and whose fields hold line breaks
SpacedRowText(town, n, name, party, w1, w2) ==
    town \o w1 \o <<"-">> \o w2 \o District \o w1 \o n \o w2 \o <<"-">> \o w1
         \o name \o w2 \o <<"(">> \o party \o <<")">> \o w1
SpacedRows ==
    LET towns == {<<"a">>, <<"a", " ", "\n", "a">>}
        names == {<<"b">>, <<"b", "\n", "b">>}
        parties == {<<"R">>, <<"R", "\n", " ", "-", " ", " ", "a">>}
        runs == Strings(SpaceChars, 0, 2)
    IN {SpacedRowText(f[1], f[2], f[3], f[4], f[5], f[6]) :
           f \in towns \X Numbers \X names \X parties \X runs \X runs}

InitExtract ==
    /\ IdleUrl /\ IdleCommittees /\ IdleDetail /\ IdleListing /\ IdlePagination
    /\ IdleMain
    /\ \/ /\ shape \in Shapes
          /\ text = RowText(shape[1], shape[2], shape[3], shape[4])
       \/ /\ shape = NoShape
          /\ text \in Strings(Alphabet, 0, MaxLen) \cup SpacedRows
    /\ extracted = NoFields
    /\ extract_pc = "call"

CallExtract ==
    /\ extract_pc = "call"
    /\ extracted' = extract_legislator_from_string(text)
    /\ extract_pc' = "done"
    /\ UNCHANGED <<text, shape, urlVars, committeeVars, detailVars, listingVars, paginationVars, mainVars>>

SpecExtract == InitExtract /\ [][CallExtract]_vars

\* ------------------------------------------------------ get_most_common_url
\* longest list handed to get_most_common_url
MaxUrls == 4

Paths == {"/m/1", "/m/2", "/m/3"}

\* Counter(urls): the distinct urls in the order first met, each with its count
RECURSIVE Counter(_)
Counter(us) ==
    IF us = Empty THEN Empty
    ELSE LET before == Counter(SubSeq(us, 1, Len(us) - 1))
             u == us[Len(us)]
             at == {i \in 1..Len(before) : before[i][1] = u}
         IN IF at = {} THEN Append(before, <<u, 1>>)
            ELSE [before EXCEPT ![Min(at)] = <<u, before[Min(at)][2] + 1>>]

\* most_common(1) taken as the first entry of the counter, unsorted
FirstKey(counter) == counter[1]

\* counter.most_common(1)[0]: max() over the entries by count, which keeps the
\* first of the entries that share the highest count
MostCommon1(counter) ==
    LET best == {i \in 1..Len(counter) :
                    \A j \in 1..Len(counter) : counter[j][2] <= counter[i][2]}
    IN counter[Min(best)]

get_most_common_url(us) ==
    IF us = Empty THEN "" ELSE MostCommon1(Counter(us))[1]

InitUrl ==
    /\ IdleExtract /\ IdleCommittees /\ IdleDetail /\ IdleListing /\ IdlePagination
    /\ IdleMain
    /\ urls \in Strings(Paths, 0, MaxUrls)
    /\ most_common_url = ""
    /\ url_pc = "call"

CallMostCommon ==
    /\ url_pc = "call"
    /\ most_common_url' = get_most_common_url(urls)
    /\ url_pc' = "done"
    /\ UNCHANGED <<urls, extractVars, committeeVars, detailVars, listingVars, paginationVars, mainVars>>

SpecUrl == InitUrl /\ [][CallMostCommon]_vars

\* ------------------------------------------------- parsed HTML (BeautifulSoup)
\* A document is the sequence of its nodes in document order.  A node is an
\* element (tag, class attribute, href attribute) or a string (tag "#text",
\* txt its characters); parent is the index of its parent, 0 at the top.

NoAttr == "#absent"

Text(t) ==
    <<[tag |-> "#text", id |-> NoAttr, cls |-> NoAttr, href |-> NoAttr,
       parent |-> 0, txt |-> t]>>

Shift(sub, off, top) ==
    [i \in 1..Len(sub) |->
        [sub[i] EXCEPT !.parent = IF @ = 0 THEN top ELSE @ + off]]

RECURSIVE Place(_, _, _)
Place(kids, off, top) ==
    IF kids = Empty THEN Empty
    ELSE Shift(Head(kids), off, top) \o Place(Tail(kids), off + Len(Head(kids)), top)

\* an element with the given children (each a subtree)
ElemId(tag, id, cls, href, kids) ==
    <<[tag |-> tag, id |-> id, cls |-> cls, href |-> href, parent |-> 0, txt |-> Empty]>>
        \o Place(kids, 1, 1)
Elem(tag, cls, href, kids) == ElemId(tag, NoAttr, cls, href, kids)

\* a document with the given top-level subtrees
Document(kids) == Place(kids, 0, 0)

\* the elements of a set of indices, in document order
RECURSIVE InOrder(_)
InOrder(S) == IF S = {} THEN Empty ELSE <<Min(S)>> \o InOrder(S \ {Min(S)})

\* node j lies inside node r (every node lies inside the document, r = 0)
RECURSIVE Under(_, _, _)
Under(doc, j, r) ==
    IF r = 0 THEN TRUE
    ELSE IF doc[j].parent = r THEN TRUE
    ELSE IF doc[j].parent = 0 THEN FALSE
    ELSE Under(doc, doc[j].parent, r)

RECURSIVE ConcatTxt(_, _)
ConcatTxt(doc, idx) ==
    IF idx = Empty THEN Empty ELSE doc[Head(idx)].txt \o ConcatTxt(doc, Tail(idx))

\* PageElement.get_text(): the strings of the node and of all it contains
get_text(doc, i) ==
    ConcatTxt(doc, InOrder({i} \cup {j \in (i + 1)..Len(doc) : Under(doc, j, i)}))

IsTag(node, tag) == node.tag = tag
HasClass(node, tag, cls) == node.tag = tag /\ node.cls = cls

\* root.find_all(tag, class_=cls) and root.find(...): 0 stands for None
find_all(doc, r, tag, cls) ==
    InOrder({j \in 1..Len(doc) : j # r /\ Under(doc, j, r) /\ HasClass(doc[j], tag, cls)})
find_all_tags(doc, r, tag) ==
    InOrder({j \in 1..Len(doc) : j # r /\ Under(doc, j, r) /\ IsTag(doc[j], tag)})
First(idx) == IF idx = Empty THEN 0 ELSE Head(idx)
find(doc, r, tag, cls) == First(find_all(doc, r, tag, cls))
find_tag(doc, r, tag) == First(find_all_tags(doc, r, tag))

\* tag.find_next(name): the next element of that name in document order
find_next(doc, i, tag) ==
    First(InOrder({j \in (i + 1)..Len(doc) : IsTag(doc[j], tag)}))

\* tag.find_next_sibling(name): the next element of that name with the same parent
find_next_sibling(doc, i, tag) ==
    First(InOrder({j \in (i + 1)..Len(doc) :
                      IsTag(doc[j], tag) /\ doc[j].parent = doc[i].parent}))

\* the children of a tag, as iterating over it yields them
Children(doc, i) == InOrder({j \in 1..Len(doc) : doc[j].parent = i})

\* ---------------------------------------------------------- scrape_committees
CommitteesLabel == <<"Committee(s):">>
Separator == <<";", " ">>

\* a call's outcome: a returned value, or an AttributeError on None
Returned(v) == [raised |-> FALSE, value |-> v]
Raised == [raised |-> TRUE, value |-> Empty]

\* lines 69-76 with the third committee never looked for
CommitteesAtTwo(doc, t) ==
    LET answer == find_next(doc, t, "span")
        tag_1 == IF answer = 0 THEN 0 ELSE find_next(doc, answer, "span")
    IN IF tag_1 = 0 THEN Raised
       ELSE LET one == Strip(get_text(doc, tag_1))
                tag_2 == find_next_sibling(doc, tag_1, "span")
            IN IF tag_2 = 0 THEN Returned(one)
               ELSE Returned(one \o Separator \o Strip(get_text(doc, tag_2)))

\* lines 69-76: the committees read for the label at node t
CommitteesAt(doc, t) ==
    LET answer == find_next(doc, t, "span")
        tag_1 == IF answer = 0 THEN 0 ELSE find_next(doc, answer, "span")
    IN IF tag_1 = 0 THEN Raised
       ELSE LET one == Strip(get_text(doc, tag_1))
                tag_2 == find_next_sibling(doc, tag_1, "span")
            IN IF tag_2 = 0 THEN Returned(one)
               ELSE LET two == one \o Separator \o Strip(get_text(doc, tag_2))
                        tag_3 == find_next_sibling(doc, tag_2, "span")
                    IN IF tag_3 = 0 THEN Returned(two)
                       ELSE Returned(two \o Separator \o Strip(get_text(doc, tag_3)))

\* lines 66-77: the loop over spans_medium, the last label's committees kept
RECURSIVE CommitteesLoop(_, _, _)
CommitteesLoop(doc, spans, sofar) ==
    IF spans = Empty THEN Returned(sofar)
    ELSE IF get_text(doc, Head(spans)) = CommitteesLabel
         THEN LET here == CommitteesAt(doc, Head(spans))
              IN IF here.raised THEN Raised
                 ELSE CommitteesLoop(doc, Tail(spans), here.value)
         ELSE CommitteesLoop(doc, Tail(spans), sofar)

scrape_committees(doc, spans_medium) == CommitteesLoop(doc, spans_medium, Empty)

\* ------------------------------------------------ inputs of scrape_committees
\* most committee names in an answer container
MaxNames == 4
\* most nodes of a freely built document
MaxNodes == 4

Span(cls, kids) == Elem("span", cls, NoAttr, kids)
Br == Elem("br", NoAttr, NoAttr, Empty)
Blank == Text(<<"\n", " ">>)
Label(t) == Span("font_weight_m", <<Text(t)>>)

CommitteeNames ==
    [A |-> <<"A1", "A2", "A3", "A4", "A5", "A6">>, B |-> <<"B1", "B2", "B3">>]
\* the k-th committee name; every second one is a chair, with an icon
NameSpan(block, k) ==
    IF k % 2 = 0
    THEN Span(NoAttr, <<Elem("i", "fas fa-check", NoAttr, Empty),
                        Text(<<" ", CommitteeNames[block][k], " ", "-", " ", "Chair">>)>>)
    ELSE Span(NoAttr, <<Text(<<CommitteeNames[block][k]>>)>>)

RECURSIVE NameSpans(_, _, _)
NameSpans(block, n, airy) ==
    IF n = 0 THEN (IF airy THEN <<Blank, Br, Blank>> ELSE Empty)
    ELSE NameSpans(block, n - 1, airy)
            \o <<NameSpan(block, n)>> \o (IF airy THEN <<Blank, Br, Blank>> ELSE Empty)

\* the label and its answer container holding n committee names
CommitteeBlock(block, n, airy) ==
    <<Label(CommitteesLabel)>> \o (IF airy THEN <<Blank>> ELSE Empty)
        \o <<Span("text_right", NameSpans(block, n, airy))>>

\* the fragments of a detail page around the committees label: an optional
\* contact line before it, the block, an optional second block or other span
LaidOutSoups ==
    {Document((IF f[1] THEN <<Label(<<"Contact:">>),
                              Span("text_right", <<Text(<<"phone">>)>>), Br>> ELSE Empty)
              \o (IF f[2] = -1 THEN Empty ELSE CommitteeBlock("A", f[2], f[3]))
              \o (IF f[4] = -1 THEN Empty ELSE CommitteeBlock("B", f[4], f[3]))
              \o (IF f[5] THEN <<Span(NoAttr, <<Text(<<"footer">>)>>)>> ELSE Empty)) :
        f \in BOOLEAN \X (-1..MaxNames) \X BOOLEAN \X (-1..1) \X BOOLEAN}

\* every document of at most MaxNodes nodes over a few kinds of node
NodeKinds ==
    {[tag |-> "span", cls |-> "font_weight_m", txt |-> Empty],
     [tag |-> "span", cls |-> NoAttr, txt |-> Empty],
     [tag |-> "br", cls |-> NoAttr, txt |-> Empty],
     [tag |-> "#text", cls |-> NoAttr, txt |-> CommitteesLabel],
     [tag |-> "#text", cls |-> NoAttr, txt |-> <<" ", "x">>]}

\* where a node appended to doc may hang: at the top, or under the last node or
\* one of its ancestors, when that is a span
RECURSIVE OpenNodes(_, _)
OpenNodes(doc, j) ==
    IF j = 0 THEN {0}
    ELSE (IF doc[j].tag = "span" THEN {j} ELSE {}) \cup OpenNodes(doc, doc[j].parent)

RECURSIVE FreeSoups(_)
FreeSoups(n) ==
    IF n = 0 THEN {Empty}
    ELSE LET smaller == FreeSoups(n - 1)
         IN smaller \cup
            {Append(dp[1], [tag |-> k.tag, id |-> NoAttr, cls |-> k.cls, href |-> NoAttr,
                        parent |-> dp[2], txt |-> k.txt]) :
                dp \in {x \in smaller \X (0..(n - 1)) :
                           Len(x[1]) = n - 1 /\ x[2] \in OpenNodes(x[1], n - 1)},
                k \in NodeKinds}

InitCommittees ==
    /\ IdleExtract /\ IdleUrl /\ IdleDetail /\ IdleListing /\ IdlePagination
    /\ IdleMain
    /\ soup \in LaidOutSoups \cup FreeSoups(MaxNodes)
    /\ committees = Returned(Empty)
    /\ committees_pc = "call"

\* the test's call: scrape_committees(soup.find_all("span", class_="font_weight_m"))
CallCommittees ==
    /\ committees_pc = "call"
    /\ committees' = scrape_committees(soup, find_all(soup, 0, "span", "font_weight_m"))
    /\ committees_pc' = "done"
    /\ UNCHANGED <<soup, extractVars, urlVars, detailVars, listingVars, paginationVars, mainVars>>

SpecCommittees == InitCommittees /\ [][CallCommittees]_vars

\* ------------------------------------------- scrape_detailed_legislator_info
\* the position sets of a pattern that is only asked whether it matches
Eat(s, P, chars) == {p + 1 : p \in {x \in P : x <= Len(s) /\ s[x] \in chars}}
EatChar(s, P, c) == {p + 1 : p \in {x \in P : CharAt(s, x, c)}}
Eat3(s, P, chars) == Eat(s, Eat(s, Eat(s, P, chars), chars), chars)

\* re.search(r"^(1\s?)?(\d{3}|\(\d{3}\))[\s\-\\.]?\d{3}[\s\-\\.]?\d{4}", phone)
PhonePattern(s) ==
    LET PhoneSeparators == SpaceChars \cup {"-", "\\", "."}
        one == EatChar(s, {1}, "1")
        a0 == {1} \cup one \cup Eat(s, one, SpaceChars)
        a1 == Eat3(s, a0, DigitChars)
                \cup EatChar(s, Eat3(s, EatChar(s, a0, "("), DigitChars), ")")
        a2 == Eat3(s, a1 \cup Eat(s, a1, PhoneSeparators), DigitChars)
        a3 == Eat(s, Eat3(s, a2 \cup Eat(s, a2, PhoneSeparators), DigitChars), DigitChars)
    IN a3 # {}

find_link(doc, r) ==
    First(InOrder({j \in 1..Len(doc) :
                      j # r /\ Under(doc, j, r) /\ doc[j].tag = "a" /\ doc[j].href # NoAttr}))
\* line 101 with the id not looked at
find_first(doc, tag, id) == First(InOrder({j \in 1..Len(doc) : doc[j].tag = tag}))
\* line 101: soup.find("div", id="main-info")
find_id(doc, tag, id) ==
    First(InOrder({j \in 1..Len(doc) : doc[j].tag = tag /\ doc[j].id = id}))

EmailWarning == "Email not found"
PhoneWarning == "Phone not found"

\* lines 122-127: the loop over the contents of the first right-aligned span;
\* found tells whether line 127 returned
RECURSIVE PhoneLoop(_, _, _)
PhoneLoop(doc, tags, phone) ==
    IF tags = Empty THEN [found |-> FALSE, phone |-> phone]
    ELSE LET here == Strip(get_text(doc, Head(tags)))
         IN IF PhonePattern(here) THEN [found |-> TRUE, phone |-> here]
            ELSE PhoneLoop(doc, Tail(tags), here)

\* lines 119-130
ScrapePhone(doc, info_paragraph) ==
    LET phone_possible == find(doc, info_paragraph, "span", "text_right")
    IN IF phone_possible = 0 THEN [found |-> FALSE, phone |-> Empty]
       ELSE PhoneLoop(doc, Children(doc, phone_possible), Empty)

NoDetail == <<Empty, Empty, Empty>>
Outcome(raised, value, log) == [raised |-> raised, value |-> value, log |-> log]

\* lines 99-130, on the parsed response: (email, phone, committees) and the
\* warnings logged, or the AttributeError of scrape_committees
scrape_detailed_legislator_info(doc) ==
    LET main_info == find_id(doc, "div", "main-info")
        info_paragraph == IF main_info = 0 THEN 0 ELSE find_tag(doc, main_info, "p")
    IN IF main_info = 0 \/ info_paragraph = 0 THEN Outcome(FALSE, NoDetail, Empty)
       ELSE LET cs == scrape_committees(doc, find_all(doc, main_info, "span", "font_weight_m"))
                email_tag == find_link(doc, info_paragraph)
                email == IF email_tag = 0 THEN Empty ELSE Strip(get_text(doc, email_tag))
                email_log == IF email_tag = 0 THEN <<EmailWarning>> ELSE Empty
                ph == ScrapePhone(doc, info_paragraph)
            IN IF cs.raised THEN Outcome(TRUE, NoDetail, Empty)
               ELSE Outcome(FALSE, <<email, ph.phone, cs.value>>,
                            email_log \o (IF ph.found THEN Empty ELSE <<PhoneWarning>>))

\* --------------------------------- inputs of scrape_detailed_legislator_info
\* most nodes inside the contact span of a detail page
MaxContact == 2

PhoneText == <<"(", "2", "1", "2", ")", " ", "1", "2", "1", "-", "2", "1", "2", "1">>
EmailText == <<" ", "member", "@", "legislature", ".", "maine", ".", "gov">>

\* the contact line of a detail page: none, or the label and a right-aligned
\* span with the given contents
ContactLines ==
    LET nodes == {Text(PhoneText),
                  Text(<<" ", "1", " ", "2", "1", "2", ".", "1", "2", "1", "2", "1", "2", "1",
                         " ", "x", "2">>),
                  Text(<<"2", "1", "2", "-", "1", "2", "1", "-", "2", "1", "2">>),
                  Text(<<"N", "/", "A">>),
                  Blank, Br, Span(NoAttr, <<Text(PhoneText)>>)}
    IN {Empty} \cup
       {<<Label(<<"Contact:">>), Span("text_right", kids), Br>> :
           kids \in Strings(nodes, 0, MaxContact)}

\* a detail page: the main-info container (or a div without the id), a
\* paragraph in it (or none), and in the paragraph an e-mail link, a contact
\* line and the committees
DetailPage(has_main, has_p, email, contact, ncommittees, airy) ==
    LET inside == email \o <<Text(<<"address">>), Br>> \o contact
                     \o (IF ncommittees = -1 THEN Empty
                         ELSE CommitteeBlock("A", ncommittees, airy))
    IN Document(<<ElemId("div", IF has_main THEN "main-info" ELSE NoAttr, NoAttr, NoAttr,
                         <<Elem("div", "member-name", NoAttr, <<Text(<<"name">>)>>)>>
                            \o (IF has_p THEN <<Elem("p", NoAttr, NoAttr, inside)>>
                                ELSE inside))>>)

DetailPages ==
    LET links ==
            {Empty,
             <<Elem("a", NoAttr, "mailto:member",
                    <<Elem("i", "fas fa-envelope", NoAttr, Empty), Text(EmailText)>>), Br>>,
             <<Elem("a", NoAttr, NoAttr, <<Text(<<"anchor">>)>>), Br>>}
    IN {DetailPage(f[1], f[2], f[3], f[4], f[5], f[6]) :
           f \in BOOLEAN \X BOOLEAN \X links \X ContactLines \X (-1..2) \X BOOLEAN}

InitDetail ==
    /\ IdleExtract /\ IdleUrl /\ IdleCommittees /\ IdleListing /\ IdlePagination
    /\ IdleMain
    /\ detail_page \in DetailPages
    /\ detail = Outcome(FALSE, NoDetail, Empty)
    /\ detail_pc = "call"

CallDetail ==
    /\ detail_pc = "call"
    /\ detail' = scrape_detailed_legislator_info(detail_page)
    /\ detail_pc' = "done"
    /\ UNCHANGED <<detail_page, extractVars, urlVars, committeeVars, listingVars, paginationVars, mainVars>>

SpecDetail == InitDetail /\ [][CallDetail]_vars

\* ------------------------------------------------- collect_municipality_data
ButtonClass == "btn btn-default"
CellClass == "short-tabletdlf"
TableClass == "short-table white"

\* row.find("a", class_="btn btn-default", href=True)
find_button(doc, r) ==
    First(InOrder({j \in 1..Len(doc) :
                      /\ j # r /\ Under(doc, j, r)
                      /\ HasClass(doc[j], "a", ButtonClass) /\ doc[j].href # NoAttr}))

\* lines 159-163 with a row that has no cell given empty fields
ListingRowTolerant(doc, row) ==
    LET row_cell == find(doc, row, "td", CellClass)
        row_link == find_button(doc, row)
        detail_url == IF row_link = 0 THEN "" ELSE doc[row_link].href
    IN IF row_cell = 0 THEN Returned(NoFields \o <<detail_url>>)
       ELSE Returned(extract_legislator_from_string(get_text(doc, row_cell))
                        \o <<detail_url>>)

\* lines 159-163: one table row; row_cell.get_text() raises when there is no cell
ListingRow(doc, row) ==
    LET row_cell == find(doc, row, "td", CellClass)
        row_link == find_button(doc, row)
        detail_url == IF row_link = 0 THEN "" ELSE doc[row_link].href
    IN IF row_cell = 0 THEN Raised
       ELSE Returned(extract_legislator_from_string(get_text(doc, row_cell))
                        \o <<detail_url>>)

\* lines 157-165: the loop over the rows
RECURSIVE ListingLoop(_, _, _)
ListingLoop(doc, rows, sofar) ==
    IF rows = Empty THEN Returned(sofar)
    ELSE LET here == ListingRow(doc, Head(rows))
         IN IF here.raised THEN Raised
            ELSE ListingLoop(doc, Tail(rows), Append(sofar, here.value))

\* table_tag.find_all("tr")[2:]
SkipHeader(rows) == SubSeq(rows, 3, Len(rows))
\* lines 151-165 with the check of lines 154-155 turned into a failure
collect_municipality_data_strict(doc) ==
    LET table_tag == find(doc, 0, "table", TableClass)
    IN IF table_tag = 0 THEN Raised
       ELSE ListingLoop(doc, SkipHeader(find_all_tags(doc, table_tag, "tr")), Empty)

\* lines 151-165, on the parsed response
collect_municipality_data(doc) ==
    LET table_tag == find(doc, 0, "table", TableClass)
    IN IF table_tag = 0 THEN Returned(Empty)
       ELSE ListingLoop(doc, SkipHeader(find_all_tags(doc, table_tag, "tr")), Empty)

\* ----------------------------------------- inputs of collect_municipality_data
\* most data rows of a listing table
MaxRows == 2

Chars1 == <<" ", "-", " ">> \o District \o <<" ", "1", " ", "-", " ", "b", " ", "(", "R", " ", "-", " ", "a", ")", "\n", " ">>
Chars2 == <<" ", "-", " ">> \o District \o <<" ", "2", " ", "-", " ", "b", " ", "(", "R", " ", "-", " ", "a", ")">>
Chars3 == <<"a", " ", "-", " ">> \o District \o <<" ", "1", "2", " ", "-", " ", "R", " ", "b", " ", "(", "a", ")">>

Td(kids) == Elem("td", CellClass, NoAttr, kids)
Link(cls, href) == Elem("a", cls, href, <<Elem("i", "fas fa-user", NoAttr, Empty), Text(<<"View">>)>>)
\* the rows of a table: a cell (none, three rows of two members, a text that
\* is no row) and a link (none, a button, a plain link before a button, a
\* button without href before one with)
DataRows ==
    LET cells ==
            {Empty,
             <<Td(<<Blank, Elem("b", NoAttr, NoAttr, <<Text(<<"a">>)>>), Text(Chars1)>>)>>,
             <<Td(<<Text(<<"b", " ">>), Elem("b", NoAttr, NoAttr, <<Text(<<"a">>)>>),
                    Text(Chars2)>>)>>,
             <<Td(<<Text(Chars3)>>)>>,
             <<Td(<<Text(<<"a", " ", "-", " ", "1", " ", "-", " ", "b", " ", "(", "R", ")">>)>>)>>}
        links ==
            {Empty,
             <<Elem("td", NoAttr, NoAttr, <<Link(ButtonClass, "/m/1")>>)>>,
             <<Elem("td", NoAttr, NoAttr, <<Link(NoAttr, "/help"), Link(ButtonClass, "/m/2")>>)>>,
             <<Elem("td", NoAttr, NoAttr, <<Link(ButtonClass, NoAttr), Link(ButtonClass, "/m/1"),
                                            Link(ButtonClass, "/m/2")>>)>>}
    IN {Elem("tr", NoAttr, NoAttr, c[1] \o c[2]) : c \in cells \X links}
HeaderRows(h) ==
    [i \in 1..h |->
        Elem("tr", NoAttr, NoAttr, <<Elem("th", NoAttr, NoAttr, <<Text(<<"Town">>)>>)>>)]

\* a listing page: a table of h header rows and the given rows, or no table
ListingPage(h, rows) ==
    Document(<<Elem("div", NoAttr, NoAttr, <<Text(<<"Currently", " ", "Viewing">>)>>),
               Elem("table", TableClass, NoAttr, HeaderRows(h) \o rows)>>)
NoTablePage == Document(<<Elem("div", NoAttr, NoAttr, <<Text(<<"No", " ", "table">>)>>)>>)

ListingPages ==
    {NoTablePage} \cup
    {ListingPage(f[1], f[2]) : f \in (0..2) \X Strings(DataRows, 0, MaxRows)}

InitListing ==
    /\ IdleExtract /\ IdleUrl /\ IdleCommittees /\ IdleDetail /\ IdlePagination
    /\ IdleMain
    /\ listing_page \in ListingPages
    /\ legislators = Returned(Empty)
    /\ listing_pc = "call"

CallListing ==
    /\ listing_pc = "call"
    /\ legislators' = collect_municipality_data(listing_page)
    /\ listing_pc' = "done"
    /\ UNCHANGED <<listing_page, extractVars, urlVars, committeeVars, detailVars,
                   paginationVars, mainVars>>

SpecListing == InitListing /\ [][CallListing]_vars

\* -------------------------------------------------------------- get_pagination
\* lines 201-206, on the parsed response: the text of every anchor in the list
RECURSIVE TextsOf(_, _)
TextsOf(doc, idx) ==
    IF idx = Empty THEN Empty ELSE <<get_text(doc, Head(idx))>> \o TextsOf(doc, Tail(idx))

\* lines 201-206 with find_all("li") at line 206
get_pagination_items(doc) ==
    LET pages == find(doc, 0, "ul", "pagination")
    IN IF pages = 0 THEN Empty ELSE TextsOf(doc, find_all_tags(doc, pages, "li"))

get_pagination(doc) ==
    LET pages == find(doc, 0, "ul", "pagination")
    IN IF pages = 0 THEN Empty ELSE TextsOf(doc, find_all_tags(doc, pages, "a"))

\* ------------------------------------------------------ inputs of get_pagination
\* most items of a pagination list
MaxItems == 3

\* an item of the list as the site writes it: the letter inside a span, an
\* anchor around it when the letter is active
Letter(cls, letter, active) ==
    Elem("li", cls, NoAttr,
         <<Elem("span", NoAttr, NoAttr,
                IF active
                THEN <<Elem("a", NoAttr, "?selectedLetter", <<Text(letter)>>)>>
                ELSE <<Text(letter)>>)>>)

\* active letters (one written with space around it), an inactive letter, an
\* item with two anchors
Letters ==
    {Letter("active", <<"A">>, TRUE), Letter("active", <<" ", "B", "\n">>, TRUE),
     Letter("inactive", <<"Q">>, FALSE),
     Elem("li", "active", NoAttr,
          <<Elem("a", NoAttr, "?first", <<Text(<<"<">>)>>), Blank,
            Elem("a", NoAttr, "?selectedLetter", <<Elem("b", NoAttr, NoAttr, <<Text(<<"R">>)>>)>>)>>)}

\* what surrounds the list: nothing, an anchor before it, a second list after
\* it, or a div of class pagination holding it after a list of another class
PaginationPagesOf(items) ==
    LET list == Elem("ul", "pagination", NoAttr, items)
        home == Elem("a", NoAttr, "/", <<Text(<<"Home">>)>>)
        menu == Elem("ul", "menu", NoAttr, <<Letter("active", <<"M">>, TRUE)>>)
        foot == Elem("ul", "pagination", NoAttr, <<Letter("active", <<"Z">>, TRUE)>>)
    IN {Document(<<list>>), Document(<<home, list>>), Document(<<list, foot>>),
        Document(<<menu, Elem("div", "pagination", NoAttr, <<home, list>>)>>),
        Document(<<menu, Elem("div", "pagination", NoAttr, items)>>)}

PaginationInputs ==
    {NoTablePage} \cup UNION {PaginationPagesOf(items) : items \in Strings(Letters, 0, MaxItems)}

InitPagination ==
    /\ IdleExtract /\ IdleUrl /\ IdleCommittees /\ IdleDetail /\ IdleListing
    /\ IdleMain
    /\ pagination_page \in PaginationInputs
    /\ pagination = Empty
    /\ pagination_pc = "call"

CallPagination ==
    /\ pagination_pc = "call"
    /\ pagination' = get_pagination(pagination_page)
    /\ pagination_pc' = "done"
    /\ UNCHANGED <<pagination_page, extractVars, urlVars, committeeVars, detailVars,
                   listingVars, mainVars>>

SpecPagination == InitPagination /\ [][CallPagination]_vars

\* ------------------------------------------------------------------------ main
\* most entries of the pagination list
MaxLetters == 2
\* most listing rows main collects in a run
MaxTotalRows == 3

\* a dict, as the sequence of its <<key, value>> items in insertion order
HasKey(dict, key) == \E i \in 1..Len(dict) : dict[i][1] = key
Lookup(dict, key) == dict[Min({i \in 1..Len(dict) : dict[i][1] = key})][2]

\* line 236 with a new entry made for every row
AppendNew(dict, key, v) == Append(dict, <<key, <<v>>>>)

\* line 236: legislator_urls[member].append(detail_url) on a defaultdict(list)
AppendTo(dict, key, v) ==
    IF HasKey(dict, key)
    THEN [i \in 1..Len(dict) |->
             IF dict[i][1] = key THEN <<key, Append(dict[i][2], v)>> ELSE dict[i]]
    ELSE Append(dict, <<key, <<v>>>>)

\* lines 231-237: the detail paths of every member, rows without a member name
\* or without a detail path left out
RECURSIVE GroupUrls(_, _)
GroupUrls(rows, dict) ==
    IF rows = Empty THEN dict
    ELSE LET row == Head(rows)
         IN GroupUrls(Tail(rows),
                      IF row[3] # Empty /\ row[5] # ""
                      THEN AppendTo(dict, row[3], row[5]) ELSE dict)

\* lines 248-254 with the rows of unresolved members left out
RECURSIVE FinalDataResolved(_, _)
FinalDataResolved(rows, details) ==
    IF rows = Empty THEN Empty
    ELSE LET row == Head(rows)
         IN (IF HasKey(details, row[3])
             THEN <<SubSeq(row, 1, 4) \o Lookup(details, row[3])>> ELSE Empty)
            \o FinalDataResolved(Tail(rows), details)

\* lines 248-254 with the details given only to the rows that carry a detail path
RECURSIVE FinalDataByPath(_, _)
FinalDataByPath(rows, details) ==
    IF rows = Empty THEN Empty
    ELSE LET row == Head(rows)
         IN <<SubSeq(row, 1, 4)
                \o (IF HasKey(details, row[3]) /\ row[5] # ""
                    THEN Lookup(details, row[3]) ELSE NoDetail)>>
            \o FinalDataByPath(Tail(rows), details)

\* lines 248-254: every listing row with the details of its member
RECURSIVE FinalData(_, _)
FinalData(rows, details) ==
    IF rows = Empty THEN Empty
    ELSE LET row == Head(rows)
         IN <<SubSeq(row, 1, 4)
                \o (IF HasKey(details, row[3]) THEN Lookup(details, row[3]) ELSE NoDetail)>>
            \o FinalData(Tail(rows), details)

CsvHeader == <<"District", "Town", "Member", "Party", "Email", "Phone", "Committees">>
NoFile == <<"no file">>

\* line 20
REQUEST_DELAY == 5

\* lines 196-200 with the sleep left out
CallWithoutDelay(request, answer) == <<<<"request", request>>, <<"response", answer>>>>

\* lines 94-98, 146-150 and 196-200: every fetching function sleeps, sends its
\* request and blocks until http.request returns or raises; answer says how
\* it ended ("error" when it raised)
Call(request, answer) ==
    <<<<"sleep", REQUEST_DELAY>>, <<"request", request>>, <<"response", answer>>>>

\* the exception caught where the request was made, the step tried again
AfterFailureCaught(at) == at

\* lines 98, 150, 200 and 222-245: no try around http.request or around the
\* calls in main, so an exception of the HTTP layer leaves main at once
AfterFailure(at) == "aborted"

\* what a request can be answered with, besides a page
HttpError == <<[tag |-> "#error", id |-> NoAttr, cls |-> NoAttr, href |-> NoAttr,
                parent |-> 0, txt |-> Empty]>>

\* the pagination list: every letter an anchor, or plain text when inactive
PageItem(letter, active) ==
    Elem("li", NoAttr, NoAttr,
         IF active THEN <<Elem("a", NoAttr, "?selectedLetter", <<Text(letter)>>)>>
         ELSE <<Text(letter)>>)
\* the first n letters active and a last one inactive, or a page without the list
PaginationPages ==
    LET names == <<"A", "B", "C">>
    IN {NoTablePage} \cup
       {Document(<<Elem("ul", "pagination", NoAttr,
                        [i \in 1..n |-> PageItem(<<names[i]>>, TRUE)]
                           \o <<PageItem(<<"Z">>, FALSE)>>)>>) : n \in 0..MaxLetters}

\* the listing rows of a run: rows of two members in two towns with one or the
\* other detail path or none, a text that is no row, a row without a cell
RunRows ==
    LET cell1 == <<Td(<<Blank, Text(<<"a", "-">> \o District \o <<" ", "1", "-", "b", "(", "R", ")">>)>>)>>
        cell2 == <<Td(<<Text(<<"c", " ", "-">> \o District \o <<" ", "2", "-", "b", "(", "R", ")">>)>>)>>
        cell3 == <<Td(<<Text(<<"a", "-">> \o District \o <<" ", "1", "-", "e", " ", "(", "I", ")">>)>>)>>
        bad == <<Td(<<Text(<<"a", "-", "1", "-", "b", "(", "R", ")">>)>>)>>
        button1 == <<Elem("td", NoAttr, NoAttr, <<Link(ButtonClass, "/m/1")>>)>>
        button2 == <<Elem("td", NoAttr, NoAttr,
                          <<Link(NoAttr, "/help"), Link(ButtonClass, "/m/2")>>)>>
        rows == <<cell1 \o button1, cell2 \o button2, cell3 \o button2, cell3,
                  bad \o button1, button1>>
    IN [k \in 1..Len(rows) |-> Elem("tr", NoAttr, NoAttr, rows[k])]
\* a page without table, or a page with at most `most` of the rows, in the order
\* of the listing and none of them twice (another page of the run may repeat a
\* row, or bring the rows in the other order)
RunListingPages(most) ==
    {NoTablePage} \cup
    {ListingPage(2, [k \in 1..Cardinality(S) |-> RunRows[InOrder(S)[k]]]) :
        S \in {T \in SUBSET (1..Len(RunRows)) : Cardinality(T) <= most}}

\* the detail pages of a run: a full page, one without the container, one
\* whose committees label has no answer
RunDetailPages ==
    {DetailPage(TRUE, TRUE,
                <<Elem("a", NoAttr, "mailto:member", <<Text(EmailText)>>), Br>>,
                <<Label(<<"Contact:">>), Span("text_right", <<Text(PhoneText)>>), Br>>,
                2, TRUE),
     DetailPage(FALSE, TRUE, Empty, Empty, 1, TRUE),
     Document(<<ElemId("div", "main-info", NoAttr, NoAttr,
                       <<Elem("p", NoAttr, NoAttr, <<Label(CommitteesLabel)>>)>>)>>)}

\* the rows of a page's table after the first two
RowsAfterHeaderOf(doc) ==
    LET tables == {t \in 1..Len(doc) : HasClass(doc[t], "table", TableClass)}
        rows == IF tables = {} THEN Empty
                ELSE InOrder({j \in 1..Len(doc) :
                                 doc[j].tag = "tr" /\ Under(doc, j, Min(tables))})
    IN [k \in 1..(Len(rows) - 2) |-> rows[k + 2]]

\* the data rows of a listing page as the server sent them
RECURSIVE RowsSent(_, _)
RowsSent(doc, rows) ==
    IF rows = Empty THEN Empty
    ELSE LET row == Head(rows)
             cells == {j \in 1..Len(doc) : HasClass(doc[j], "td", CellClass) /\ Under(doc, j, row)}
             links == {j \in 1..Len(doc) : HasClass(doc[j], "a", ButtonClass)
                                              /\ doc[j].href # NoAttr /\ Under(doc, j, row)}
         IN <<<<IF cells = {} THEN Empty ELSE get_text(doc, Min(cells)),
                IF links = {} THEN "" ELSE doc[Min(links)].href>>>>
            \o RowsSent(doc, Tail(rows))

Init ==
    /\ IdleExtract /\ IdleUrl /\ IdleCommittees /\ IdleDetail /\ IdleListing
    /\ IdlePagination
    /\ pc = "pagination"
    /\ letters = Empty
    /\ letter_index = 0
    /\ all_municipalities = Empty
    /\ legislator_urls = Empty
    /\ legislator_details = Empty
    /\ csv_file = NoFile
    /\ requests = Empty
    /\ received = Empty
    /\ fetched = Empty
    /\ trace = Empty

\* line 223: letters = get_pagination(http)
GetPagination ==
    /\ pc = "pagination"
    /\ requests' = Append(requests, <<"pagination">>)
    /\ \E response \in PaginationPages \cup {HttpError} :
          IF response = HttpError
          THEN /\ pc' = AfterFailure(pc)
               /\ trace' = trace \o Call(<<"pagination">>, "error")
               /\ UNCHANGED <<letters, letter_index>>
          ELSE /\ trace' = trace \o Call(<<"pagination">>,
                                         IF find(response, 0, "ul", "pagination") = 0
                                         THEN "no list" ELSE "list")
               /\ letters' = get_pagination(response)
               /\ letter_index' = 1
               /\ pc' = "listing"
    /\ UNCHANGED <<all_municipalities, legislator_urls, legislator_details, csv_file,
                   received, fetched>>
    /\ UNCHANGED <<extractVars, urlVars, committeeVars, detailVars, listingVars,
                   paginationVars>>

\* lines 225-227: one turn of the loop over letters
CollectPage ==
    /\ pc = "listing"
    /\ letter_index <= Len(letters)
    /\ requests' = Append(requests, <<"listing", letters[letter_index]>>)
    /\ \E response \in RunListingPages(MaxTotalRows - Len(received)) \cup {HttpError} :
          IF response = HttpError
          THEN /\ pc' = AfterFailure(pc)
               /\ trace' = trace \o Call(<<"listing", letters[letter_index]>>, "error")
               /\ UNCHANGED <<letter_index, all_municipalities, received>>
          ELSE /\ trace' = trace \o Call(<<"listing", letters[letter_index]>>,
                                         IF find(response, 0, "table", TableClass) = 0
                                         THEN "no table" ELSE "table")
               /\ received' = received \o RowsSent(response, RowsAfterHeaderOf(response))
               /\ LET page == collect_municipality_data(response)
                  IN IF page.raised
                     THEN /\ pc' = "aborted"
                          /\ UNCHANGED <<letter_index, all_municipalities>>
                     ELSE /\ all_municipalities' = all_municipalities \o page.value
                          /\ letter_index' = letter_index + 1
                          /\ pc' = "listing"
    /\ UNCHANGED <<letters, legislator_urls, legislator_details, csv_file, fetched>>
    /\ UNCHANGED <<extractVars, urlVars, committeeVars, detailVars, listingVars,
                   paginationVars>>

\* lines 230-239 reached with the last letter still to read
GroupLegislatorsEarly ==
    /\ pc = "listing"
    /\ letter_index >= Len(letters)
    /\ legislator_urls' = GroupUrls(all_municipalities, Empty)
    /\ pc' = "details"
    /\ UNCHANGED <<letters, letter_index, all_municipalities, legislator_details, csv_file,
                   requests, received, fetched, trace>>
    /\ UNCHANGED <<extractVars, urlVars, committeeVars, detailVars, listingVars,
                   paginationVars>>

\* lines 230-239: after the last page, the detail paths are grouped by member
GroupLegislators ==
    /\ pc = "listing"
    /\ letter_index > Len(letters)
    /\ legislator_urls' = GroupUrls(all_municipalities, Empty)
    /\ pc' = "details"
    /\ UNCHANGED <<letters, letter_index, all_municipalities, legislator_details, csv_file,
                   requests, received, fetched, trace>>
    /\ UNCHANGED <<extractVars, urlVars, committeeVars, detailVars, listingVars,
                   paginationVars>>

\* lines 242-245: one turn of the loop over legislator_urls.keys()
ScrapeDetails ==
    /\ pc = "details"
    /\ Len(legislator_details) < Len(legislator_urls)
    /\ LET item == legislator_urls[Len(legislator_details) + 1]
           member == item[1]
           most_common == get_most_common_url(item[2])
       IN /\ requests' = Append(requests, <<"detail", member, most_common>>)
          /\ \E response \in RunDetailPages \cup {HttpError} :
                IF response = HttpError
                THEN /\ pc' = AfterFailure(pc)
                     /\ trace' = trace \o Call(<<"detail", member, most_common>>, "error")
                     /\ UNCHANGED <<legislator_details, fetched>>
                ELSE LET info == scrape_detailed_legislator_info(response)
                     IN /\ trace' = trace \o Call(<<"detail", member, most_common>>, "page")
                        /\ IF info.raised
                           THEN /\ pc' = "aborted"
                                /\ UNCHANGED <<legislator_details, fetched>>
                           ELSE /\ legislator_details' =
                                       Append(legislator_details, <<member, info.value>>)
                                /\ fetched' =
                                       Append(fetched, <<member, most_common, info.value>>)
                                /\ pc' = "details"
    /\ UNCHANGED <<letters, letter_index, all_municipalities, legislator_urls, csv_file,
                   received>>
    /\ UNCHANGED <<extractVars, urlVars, committeeVars, detailVars, listingVars,
                   paginationVars>>

\* lines 247-262: the output is built and the file written
WriteCsv ==
    /\ pc = "details"
    /\ Len(legislator_details) = Len(legislator_urls)
    /\ csv_file' = <<CsvHeader>> \o FinalData(all_municipalities, legislator_details)
    /\ trace' = Append(trace, <<"write">>)
    /\ pc' = "done"
    /\ UNCHANGED <<letters, letter_index, all_municipalities, legislator_urls,
                   legislator_details, requests, received, fetched>>
    /\ UNCHANGED <<extractVars, urlVars, committeeVars, detailVars, listingVars,
                   paginationVars>>

Next == GetPagination \/ CollectPage \/ GroupLegislators \/ ScrapeDetails \/ WriteCsv

Spec == Init /\ [][Next]_vars

\* main is one thread running its statements one after the other and the
\* loops of lines 230-254 are finite, so once the listing pages are read the
\* grouping is done, and once the detail pages are read the file is written
FairSpec ==
    /\ Spec
    /\ WF_vars(GroupLegislators)
    /\ WF_vars(WriteCsv)

\* ------------------------------------------------ vocabulary of the claims
\* the single-spaced equivalent of a text: every run of whitespace is one blank
RECURSIVE SingleSpacedFrom(_, _)
SingleSpacedFrom(s, i) ==
    IF i > Len(s) THEN Empty
    ELSE (IF ~IsSpace(s[i]) THEN <<s[i]>>
          ELSE IF i > 1 /\ IsSpace(s[i - 1]) THEN Empty ELSE <<" ">>)
         \o SingleSpacedFrom(s, i + 1)
SingleSpaced(s) == SingleSpacedFrom(s, 1)

\* a field as the extractor is meant to return it
Trimmed(s) == Strip(s)
Cleaned(s) == Strip(SingleSpaced(s))

HasChar(s, c) == \E i \in 1..Len(s) : s[i] = c

\* The language of the row pattern, by the positions a nondeterministic
\* automaton can be at (no priorities, no groups).
AnyChar(c) == TRUE
Star(s, P, C(_)) ==
    {q \in 1..(Len(s) + 1) : \E p \in P : p <= q /\ \A j \in p..(q - 1) : C(s[j])}
Plus(s, P, C(_)) ==
    {q \in 1..(Len(s) + 1) : \E p \in P : p < q /\ \A j \in p..(q - 1) : C(s[j])}
Chr(s, P, c) == {p + 1 : p \in {x \in P : CharAt(s, x, c)}}
Lit(s, P, lit) == {p + Len(lit) : p \in {x \in P : LitAt(s, x, lit)}}
InRowLanguage(s) ==
    LET a1 == Chr(s, Star(s, Plus(s, {1}, AnyChar), IsSpace), "-")
        a2 == Plus(s, Lit(s, Star(s, a1, IsSpace), District), IsSpace)
        a3 == Chr(s, Star(s, Plus(s, a2, IsDigit), IsSpace), "-")
        a4 == Chr(s, Star(s, Plus(s, Star(s, a3, IsSpace), Dot), IsSpace), "(")
    IN Chr(s, Plus(s, a4, Dot), ")") # {}

\* ------------------------------------------------------------------ claims

Occurrences(us, u) == Cardinality({i \in 1..Len(us) : us[i] = u})

\* C4: get_most_common_url returns "" for the empty list, the url that occurs
\* strictly more often than every other when there is one, and otherwise an
\* element of the list that no other element occurs more often than.
C4_MostCommon ==
    url_pc = "done"
        => /\ (urls = Empty => most_common_url = "")
           /\ \A u \in Paths :
                 (\A v \in Paths \ {u} : Occurrences(urls, v) < Occurrences(urls, u))
                     => most_common_url = u
           /\ (urls # Empty
                 => /\ Occurrences(urls, most_common_url) > 0
                    /\ \A v \in Paths :
                          Occurrences(urls, v) <= Occurrences(urls, most_common_url))

\* C4 witness: a list whose highest count is shared by two urls, the one met
\* second being listed last, has been answered with one of the two.
C4_Witness ==
    /\ url_pc = "done"
    /\ urls = <<"/m/2", "/m/1", "/m/1", "/m/2">>
    /\ most_common_url = "/m/2"

\* the "Committee(s):" labels among the medium-weight spans of a document
LabelSpans(doc) ==
    {i \in 1..Len(doc) :
        HasClass(doc[i], "span", "font_weight_m") /\ get_text(doc, i) = CommitteesLabel}
\* the spans after node i, and the spans directly inside node c
SpansAfter(doc, i) == {j \in (i + 1)..Len(doc) : doc[j].tag = "span"}
SpansIn(doc, c) == {j \in 1..Len(doc) : doc[j].tag = "span" /\ doc[j].parent = c}

RECURSIVE JoinNames(_, _)
JoinNames(doc, idx) ==
    IF idx = Empty THEN Empty
    ELSE IF Len(idx) = 1 THEN Strip(get_text(doc, idx[1]))
    ELSE Strip(get_text(doc, idx[1])) \o <<";", " ">> \o JoinNames(doc, Tail(idx))

\* node c is the answer container of label l with n >= 1 committee names: it
\* is the first span after the label, and the first span after it is one of
\* the spans directly inside it
IsAnswerOf(doc, c, l) ==
    /\ SpansAfter(doc, l) # {} /\ c = Min(SpansAfter(doc, l))
    /\ SpansAfter(doc, c) # {} /\ Min(SpansAfter(doc, c)) \in SpansIn(doc, c)

\* C5: with one "Committee(s):" label followed by an answer container of
\* n >= 1 committee-name spans, scrape_committees returns the first min(n, 3)
\* names joined by "; " in document order; with no such label it returns "".
C5_Committees ==
    committees_pc = "done"
        => /\ (LabelSpans(soup) = {} => committees = Returned(Empty))
           /\ \A l \in LabelSpans(soup) : \A c \in 1..Len(soup) :
                 (LabelSpans(soup) = {l} /\ IsAnswerOf(soup, c, l))
                     => LET names == InOrder(SpansIn(soup, c))
                            n == IF Len(names) < 3 THEN Len(names) ELSE 3
                        IN committees = Returned(JoinNames(soup, SubSeq(names, 1, n)))

\* C5 witness: a container of four committee names has been read, and the
\* first three were returned.
C5_Witness ==
    /\ committees_pc = "done"
    /\ \E l \in LabelSpans(soup) : \E c \in 1..Len(soup) :
          /\ LabelSpans(soup) = {l}
          /\ IsAnswerOf(soup, c, l)
          /\ Cardinality(SpansIn(soup, c)) = 4
    /\ committees = Returned(<<"A1", ";", " ", "A2", " ", "-", " ", "Chair", ";", " ", "A3">>)

\* the page has the main-info container and a paragraph in it
HasParagraph(doc) ==
    \E m \in 1..Len(doc) : \E q \in 1..Len(doc) :
        /\ doc[m].tag = "div" /\ doc[m].id = "main-info"
        /\ doc[q].tag = "p" /\ Under(doc, q, m)

\* the contents of the first right-aligned span of the page's paragraph, as
\* stripped texts, in document order
ContactTexts(doc) ==
    LET ps == {j \in 1..Len(doc) : doc[j].tag = "p"}
        rs == {j \in 1..Len(doc) : HasClass(doc[j], "span", "text_right")
                                      /\ ps # {} /\ Under(doc, j, Min(ps))}
    IN IF rs = {} THEN Empty
       ELSE LET kids == InOrder({j \in 1..Len(doc) : doc[j].parent = Min(rs)})
            IN [k \in 1..Len(kids) |-> Strip(get_text(doc, kids[k]))]

\* C6: the phone returned is the first of the contents of the right-aligned
\* span that matches the phone pattern; when none matches, "Phone not found"
\* is logged and the phone returned is the empty string.
C6_Phone ==
    (detail_pc = "done" /\ ~detail.raised /\ HasParagraph(detail_page))
        => LET texts == ContactTexts(detail_page)
               hits == {k \in 1..Len(texts) : PhonePattern(texts[k])}
           IN IF hits # {} THEN detail.value[2] = texts[Min(hits)]
              ELSE /\ detail.value[2] = Empty
                   /\ \E k \in 1..Len(detail.log) : detail.log[k] = PhoneWarning

\* the rows of the listing table, and those after the first two
TableRows(doc) ==
    LET tables == {t \in 1..Len(doc) : HasClass(doc[t], "table", TableClass)}
    IN IF tables = {} THEN Empty
       ELSE InOrder({j \in 1..Len(doc) : doc[j].tag = "tr" /\ Under(doc, j, Min(tables))})
RowsAfterHeader(doc) ==
    LET rows == TableRows(doc) IN [k \in 1..(Len(rows) - 2) |-> rows[k + 2]]
HasTable(doc) == \E t \in 1..Len(doc) : HasClass(doc[t], "table", TableClass)
\* the cells and the button links (with an href) of a row
CellsOf(doc, row) ==
    {j \in 1..Len(doc) : HasClass(doc[j], "td", CellClass) /\ Under(doc, j, row)}
ButtonsOf(doc, row) ==
    {j \in 1..Len(doc) : HasClass(doc[j], "a", ButtonClass) /\ doc[j].href # NoAttr
                            /\ Under(doc, j, row)}

\* C7: collect_municipality_data never raises over a listing row: every table
\* row after the first two gives one 5-tuple of strings, with four empty
\* fields when the row has no cell or its text is no row, and an empty detail
\* path when it has no link.
C7_NeverRaises ==
    listing_pc = "done"
        => /\ ~legislators.raised
           /\ LET rows == RowsAfterHeader(listing_page)
              IN /\ Len(legislators.value) = Len(rows)
                 /\ \A k \in 1..Len(rows) :
                       /\ Len(legislators.value[k]) = 5
                       /\ (CellsOf(listing_page, rows[k]) = {}
                              => SubSeq(legislators.value[k], 1, 4) = NoFields)
                       /\ (ButtonsOf(listing_page, rows[k]) = {}
                              => legislators.value[k][5] = "")

\* C8: with the table on the page, collect_municipality_data returns one tuple
\* for each row after the first two, in document order, whose detail path is
\* the href of the row's first button link, or "" when it has none.
C8_RowsAndLinks ==
    (listing_pc = "done" /\ HasTable(listing_page))
        => /\ ~legislators.raised
           /\ LET rows == RowsAfterHeader(listing_page)
              IN /\ Len(legislators.value) = Len(rows)
                 /\ \A k \in 1..Len(rows) :
                       legislators.value[k][5] =
                           IF ButtonsOf(listing_page, rows[k]) = {} THEN ""
                           ELSE listing_page[Min(ButtonsOf(listing_page, rows[k]))].href

\* C9: a text without the word "District" gives four empty strings, and so
\* does a text with it whose single-spaced form is not in the language of the
\* row pattern; the call always returns four strings.
C9_NoMatchGivesEmpty ==
    extract_pc = "done"
        => /\ (~Contains(text, District) => extracted = NoFields)
           /\ ((Contains(text, District) /\ ~InRowLanguage(SingleSpaced(text)))
                    => extracted = NoFields)
           /\ (InRowLanguage(SingleSpaced(text)) => extracted[1] # Empty)

\* C9 witness: a text holding "District" and a parenthesis that is not a row
\* has been answered with four empty strings.
C9_Witness ==
    /\ extract_pc = "done"
    /\ shape # NoShape
    /\ shape[4] = Empty
    /\ Contains(text, District)
    /\ ~InRowLanguage(SingleSpaced(text))
    /\ extracted = NoFields

\* C10: the extractor returns for a text what it returns for the text's
\* single-spaced equivalent.
C10_WhitespaceInsensitive ==
    extract_pc = "done"
        => extracted = extract_legislator_from_string(SingleSpaced(text))

\* C10 witness: a row with line breaks and runs of blanks between and inside
\* its fields has been extracted.
C10_Witness ==
    /\ extract_pc = "done"
    /\ HasChar(text, "\n")
    /\ text # SingleSpaced(text)
    /\ Len(text) > Len(SingleSpaced(text)) + 3
    /\ extracted = <<<<"1", "2">>, <<"a", " ", "a">>, <<"b", " ", "b">>,
                     <<"R", " ", "-", " ", "a">>>>

\* ------------------------------------------------------------------ C2
\* the member name the extractor reads in a row the server sent
MemberOf(sent) == extract_legislator_from_string(sent[1])[3]
\* the member names of the rows sent
MembersSent == [k \in 1..Len(received) |-> MemberOf(received[k])]
\* the detail paths of the rows sent for a member, the rows without one left out
PathsOf(members, member) ==
    LET at == InOrder({k \in 1..Len(received) : members[k] = member /\ received[k][2] # ""})
    IN [i \in 1..Len(at) |-> received[at[i]][2]]
DetailRequests == SelectSeq(requests, LAMBDA q : q[1] = "detail")

\* C2: in a run of main, every detail request is for a member name (a non-empty
\* one) that has a listing row with a detail path, no two detail requests are for
\* the same member, the path requested is one that no other path of that
\* member's rows occurs more often than, and once main has finished every such
\* member has been requested.
C2_OneFetchPerMember ==
    (DetailRequests # Empty \/ pc = "done")
        => LET members == MembersSent
               fetchable == {members[k] : k \in {j \in 1..Len(received) : received[j][2] # ""}}
                               \ {Empty}
           IN /\ \A i \in 1..Len(DetailRequests) :
                    LET member == DetailRequests[i][2]
                        path == DetailRequests[i][3]
                        paths == PathsOf(members, member)
                    IN /\ member \in fetchable
                       /\ Occurrences(paths, path) > 0
                       /\ \A k \in 1..Len(paths) :
                             Occurrences(paths, paths[k]) <= Occurrences(paths, path)
                       /\ \A j \in 1..Len(DetailRequests) :
                             j # i => DetailRequests[j][2] # member
              /\ pc = "done" => \A member \in fetchable :
                                    \E i \in 1..Len(DetailRequests) :
                                        DetailRequests[i][2] = member

\* a finished run over two pages in which a member has three rows with the
\* paths /m/1, /m/1, /m/2 and the one detail request is for that member at /m/1
C2_Witness ==
    /\ pc = "done"
    /\ Len(letters) = 2
    /\ \E k \in 1..Len(received) :
          /\ PathsOf(MembersSent, MembersSent[k]) = <<"/m/1", "/m/1", "/m/2">>
          /\ LET member == MembersSent[k] IN
             DetailRequests = <<<<"detail", member, "/m/1">>>>

\* ------------------------------------------------------------------ C3
\* the detail triple fetched for a member, empty when none was
TripleFor(member) ==
    LET at == {i \in 1..Len(fetched) : fetched[i][1] = member}
    IN IF at = {} THEN NoDetail ELSE fetched[Min(at)][3]

\* C3: the file main writes has the header and then one row for every listing
\* row received, in the order received; a row's first four fields are the
\* district, town, member and party read in its listing row and its last three
\* the triple fetched for that member, or three empty strings when none was.
C3_OutputRows ==
    csv_file # NoFile
        => /\ Len(csv_file) = Len(received) + 1
           /\ csv_file[1] = CsvHeader
           /\ \A k \in 1..Len(received) :
                 LET fields == extract_legislator_from_string(received[k][1])
                 IN csv_file[k + 1] = fields \o TripleFor(fields[3])

\* three listing rows: a member in two towns with the triple fetched, and a
\* member never resolved
C3_Witness ==
    /\ pc = "done"
    /\ Len(received) = 3
    /\ \E j, k, u \in 1..3 :
          /\ j # k
          /\ csv_file[j + 1][3] = csv_file[k + 1][3]
          /\ csv_file[j + 1][2] # csv_file[k + 1][2]
          /\ SubSeq(csv_file[j + 1], 5, 7) = SubSeq(csv_file[k + 1], 5, 7)
          /\ csv_file[j + 1][5] # Empty
          /\ csv_file[u + 1][3] # Empty
          /\ ~\E i \in 1..Len(fetched) : fetched[i][1] = csv_file[u + 1][3]
          /\ SubSeq(csv_file[u + 1], 5, 7) = NoDetail

\* ------------------------------------------------------------------ C11
\* C11: when the page has no element with id "main-info", or that element
\* holds no paragraph, scrape_detailed_legislator_info returns three empty
\* strings, logs no warning and does not raise, whatever else is on the page.
C11_NotThisKindOfPage ==
    (detail_pc = "done" /\ ~HasParagraph(detail_page))
        => detail = Outcome(FALSE, NoDetail, Empty)

\* a page without the container, and one whose container has no paragraph,
\* each holding an e-mail link, a phone and a committees label
C11_Witness ==
    /\ detail_pc = "done"
    /\ ~HasParagraph(detail_page)
    /\ \E j \in 1..Len(detail_page) :
          detail_page[j].tag = "a" /\ detail_page[j].href # NoAttr
    /\ \E j \in 1..Len(detail_page) : detail_page[j].txt = CommitteesLabel
    /\ \E j \in 1..Len(detail_page) : detail_page[j].txt = PhoneText
    /\ \E j \in 1..Len(detail_page) : detail_page[j].id = "main-info"
    /\ detail = Outcome(FALSE, NoDetail, Empty)

\* ------------------------------------------------------------------ C12
\* the first paragraph of the main-info container
ParagraphOf(doc) ==
    LET m == Min({j \in 1..Len(doc) : doc[j].tag = "div" /\ doc[j].id = "main-info"})
    IN Min({q \in 1..Len(doc) : doc[q].tag = "p" /\ Under(doc, q, m) /\ q # m})
\* the hyperlinks with an href inside node q
LinksIn(doc, q) ==
    {j \in 1..Len(doc) : j # q /\ Under(doc, j, q) /\ doc[j].tag = "a" /\ doc[j].href # NoAttr}
\* the page with an e-mail link put first in node q
WithLinkIn(doc, q) ==
    SubSeq(doc, 1, q)
        \o <<[tag |-> "a", id |-> NoAttr, cls |-> NoAttr, href |-> "mailto:member",
              parent |-> q, txt |-> Empty],
             [tag |-> "#text", id |-> NoAttr, cls |-> NoAttr, href |-> NoAttr,
              parent |-> q + 1, txt |-> EmailText]>>
        \o [k \in 1..(Len(doc) - q) |->
               [doc[q + k] EXCEPT !.parent = IF @ > q THEN @ + 2 ELSE @]]

\* C12: when the paragraph holds no hyperlink with an href, the call returns
\* with an empty e-mail and the "Email not found" warning logged, and its
\* phone and committees are those returned for the same page with an e-mail
\* link in the paragraph.
C12_EmailMissing ==
    (/\ detail_pc = "done"
     /\ HasParagraph(detail_page)
     /\ LinksIn(detail_page, ParagraphOf(detail_page)) = {})
        => LET linked == scrape_detailed_legislator_info(
                             WithLinkIn(detail_page, ParagraphOf(detail_page)))
           IN /\ ~detail.raised
              /\ detail.value[1] = Empty
              /\ \E k \in 1..Len(detail.log) : detail.log[k] = EmailWarning
              /\ ~linked.raised
              /\ linked.value[1] = Strip(EmailText)
              /\ detail.value[2] = linked.value[2]
              /\ detail.value[3] = linked.value[3]

\* the same, for the calls that return
C12_EmailMissingWhenReturned ==
    (/\ detail_pc = "done"
     /\ HasParagraph(detail_page)
     /\ LinksIn(detail_page, ParagraphOf(detail_page)) = {}
     /\ ~detail.raised)
        => LET linked == scrape_detailed_legislator_info(
                             WithLinkIn(detail_page, ParagraphOf(detail_page)))
           IN /\ detail.value[1] = Empty
              /\ \E k \in 1..Len(detail.log) : detail.log[k] = EmailWarning
              /\ ~linked.raised
              /\ linked.value[1] = Strip(EmailText)
              /\ detail.value[2] = linked.value[2]
              /\ detail.value[3] = linked.value[3]

\* ------------------------------------------------------------------- claim C13
\* the events of a kind ("sleep", "request", "response", "write"), as positions
\* of the trace
EventsOf(kind) == {i \in 1..Len(trace) : trace[i][1] = kind}
\* the requests of a kind ("pagination", "listing", "detail"), as positions of
\* the trace in order
RequestsOf(kind) ==
    InOrder({i \in EventsOf("request") : trace[i][2][1] = kind})
Positions(idx) == {idx[k] : k \in 1..Len(idx)}

\* the last thing main did
LastEvent == IF trace = Empty THEN <<"start">> ELSE trace[Len(trace)]
Answered(kind) == LastEvent = <<"response", kind>>
AnswerKinds == {trace[i][2] : i \in {j \in 1..Len(trace) : trace[j][1] = "response"}}

\* the step of main that receives a page without the markup it looks for goes
\* on with an empty list for that page
C13_StepGoesOn ==
    /\ (trace' # trace /\ trace'[Len(trace')] = <<"response", "no table">>)
          => /\ pc' = "listing"
             /\ all_municipalities' = all_municipalities
             /\ letter_index' = letter_index + 1
    /\ (trace' # trace /\ trace'[Len(trace')] = <<"response", "no list">>)
          => /\ pc' = "listing"
             /\ letters' = Empty

\* a run stops without a file only on an answer that was not a page lacking
\* its markup
StoppedByAnotherAnswer ==
    pc = "aborted" /\ ~Answered("no table") /\ ~Answered("no list")

\* the file of a finished run: the header and one row for every row the
\* listing pages sent
FileWritten ==
    /\ pc = "done"
    /\ csv_file # NoFile
    /\ csv_file[1] = CsvHeader
    /\ Len(csv_file) = 1 + Len(received)

\* every listing page of the run so far lacked its table
OnlyPagesWithoutTable ==
    /\ RequestsOf("listing") # Empty
    /\ \A i \in Positions(RequestsOf("listing")) : trace[i + 1] = <<"response", "no table">>

\* C13: a page without a listing table, or without a pagination list, is never
\* an error: the call returns an empty list for it and main goes on to the
\* next step, no run is aborted on such an answer, and a finished run has
\* written the header and the rows the other pages sent; a run that found no
\* pagination list, and a run whose listing pages all lacked the table, always
\* ends with the file written, holding the header alone
C13_MissingMarkupIsNoError ==
    /\ [][C13_StepGoesOn]_vars
    /\ [](pc = "aborted" => StoppedByAnotherAnswer)
    /\ [](pc = "done" => FileWritten)
    /\ (Answered("no list") ~> (FileWritten /\ csv_file = <<CsvHeader>>))
    /\ ((OnlyPagesWithoutTable /\ pc = "listing" /\ letter_index > Len(letters))
            ~> (FileWritten /\ csv_file = <<CsvHeader>>))

\* a finished run that met a page without a table and wrote the rows of
\* another page
C13_Witness ==
    /\ pc = "done"
    /\ "no table" \in AnswerKinds
    /\ Len(csv_file) > 1
    /\ Len(csv_file) = 1 + Len(received)

\* ------------------------------------------------------------------- claim C14

\* C14: a request that fails aborts the run at that point (nothing is done
\* after the failure) and no file is written; the file is written exactly
\* once, as the last thing of the run, after every request made has returned
\* without failure
C14_FailureAbortsWithoutFile ==
    /\ "error" \in AnswerKinds
          => /\ pc = "aborted"
             /\ Answered("error")
             /\ csv_file = NoFile
             /\ EventsOf("write") = {}
    /\ csv_file # NoFile
          => /\ pc = "done"
             /\ "error" \notin AnswerKinds
             /\ Cardinality(EventsOf("write")) = 1
             /\ LastEvent = <<"write">>
             /\ Cardinality(EventsOf("response")) = Cardinality(EventsOf("request"))
             /\ Len(requests) = Cardinality(EventsOf("request"))
    /\ pc # "done" => (csv_file = NoFile /\ EventsOf("write") = {})

\* a run aborted by a failing detail request after rows were collected
C14_Witness ==
    /\ pc = "aborted"
    /\ Answered("error")
    /\ all_municipalities # Empty
    /\ legislator_details # Empty
    /\ csv_file = NoFile

\* ------------------------------------------------------------------- claim C15
\* the pagination list of a page (the first ul of class pagination), the
\* anchors inside it and the items of it that hold no anchor
ListsOf(doc) == {i \in 1..Len(doc) : doc[i].tag = "ul" /\ doc[i].cls = "pagination"}
AnchorsIn(doc, list) == {j \in 1..Len(doc) : doc[j].tag = "a" /\ Under(doc, j, list)}
WithoutAnchor(doc, list) ==
    {j \in 1..Len(doc) : /\ doc[j].tag = "li"
                         /\ Under(doc, j, list)
                         /\ ~\E a \in AnchorsIn(doc, list) : Under(doc, a, j)}
\* how many of the anchors come before anchor a in the document
Before(anchors, a) == Cardinality({b \in anchors : b < a})

\* C15: the call returns one entry for every anchor inside the pagination
\* list, each the text of its anchor, in the order of the anchors in the
\* document, and no entry for an item without an anchor
C15_AnchorTexts ==
    (pagination_pc = "done" /\ ListsOf(pagination_page) # {})
        => LET doc == pagination_page
               list == Min(ListsOf(doc))
               anchors == AnchorsIn(doc, list)
           IN /\ Len(pagination) = Cardinality(anchors)
              /\ \A a \in anchors :
                    pagination[Before(anchors, a) + 1] = get_text(doc, a)
              /\ \A j \in WithoutAnchor(doc, list) :
                    \A k \in 1..Len(pagination) : pagination[k] # get_text(doc, j)

\* a list whose second item is inactive, between two active ones, with an
\* anchor outside the list
C15_Witness ==
    /\ pagination_pc = "done"
    /\ ListsOf(pagination_page) # {}
    /\ LET doc == pagination_page
           list == Min(ListsOf(doc))
       IN /\ WithoutAnchor(doc, list) # {}
          /\ \E a, b \in AnchorsIn(doc, list) :
                \E j \in WithoutAnchor(doc, list) : a < j /\ j < b
          /\ \E o \in 1..Len(doc) : doc[o].tag = "a" /\ ~Under(doc, o, list)
    /\ Len(pagination) >= 2

\* ------------------------------------------------------------------- claim C16

\* C16: the requests of a run come one at a time and in phases: each request
\* is answered before anything else happens; the first request, and it alone,
\* is the pagination request; the listing requests follow, the k-th for the
\* k-th letter found, one for every letter before any detail request is made;
\* every detail request comes after the answer to the last listing request;
\* the file is written after the answer to the last request
C16_PhasesInOrder ==
    /\ \A i \in EventsOf("request") : i < Len(trace) /\ trace[i + 1][1] = "response"
    /\ \A i \in EventsOf("request") :
          (i = Min(EventsOf("request"))) <=> (i \in Positions(RequestsOf("pagination")))
    /\ Len(RequestsOf("listing")) <= Len(letters)
    /\ \A k \in 1..Len(RequestsOf("listing")) :
          trace[RequestsOf("listing")[k]][2] = <<"listing", letters[k]>>
    /\ (RequestsOf("detail") # Empty \/ pc \in {"details", "done"})
          => Len(RequestsOf("listing")) = Len(letters)
    /\ \A d \in Positions(RequestsOf("detail")) :
          \A l \in Positions(RequestsOf("listing")) : l + 1 < d
    /\ \A w \in EventsOf("write") :
          /\ w = Len(trace)
          /\ \A i \in EventsOf("request") : i + 1 < w
    /\ Cardinality(EventsOf("request")) =
          Len(RequestsOf("pagination")) + Len(RequestsOf("listing")) + Len(RequestsOf("detail"))

\* a finished run with two letters and two detail requests
C16_Witness ==
    /\ pc = "done"
    /\ Len(letters) = 2
    /\ Len(RequestsOf("listing")) = 2
    /\ Len(RequestsOf("detail")) = 2
    /\ LastEvent = <<"write">>

\* ------------------------------------------------------------------- claim C17
\* the e-mail, phone and committees of a row of the file
ContactOf(line) == SubSeq(line, 5, 7)

\* C17: in the file of a finished run any two rows with the same member name
\* carry the same e-mail, phone and committees
C17_SameMemberSameContact ==
    pc = "done"
        => \A i, j \in 2..Len(csv_file) :
              csv_file[i][3] = csv_file[j][3]
                  => ContactOf(csv_file[i]) = ContactOf(csv_file[j])

\* a file with two rows of one member, one listed with a detail path and one
\* without, both carrying the e-mail scraped for the member
C17_Witness ==
    /\ pc = "done"
    /\ \E i, j \in 1..Len(all_municipalities) :
          /\ i # j
          /\ all_municipalities[i][3] = all_municipalities[j][3]
          /\ all_municipalities[i][5] # ""
          /\ all_municipalities[j][5] = ""
          /\ csv_file[i + 1][3] = all_municipalities[i][3]
          /\ csv_file[j + 1][3] = all_municipalities[j][3]
          /\ csv_file[j + 1][5] # Empty
          /\ ContactOf(csv_file[i + 1]) = ContactOf(csv_file[j + 1])

\* a file with two rows of one member listed with different detail paths
C17_OtherPaths ==
    /\ pc = "done"
    /\ \E i, j \in 1..Len(all_municipalities) :
          /\ all_municipalities[i][3] = all_municipalities[j][3]
          /\ all_municipalities[i][5] # ""
          /\ all_municipalities[j][5] # ""
          /\ all_municipalities[i][5] # all_municipalities[j][5]
          /\ csv_file[i + 1][5] # Empty

\* ------------------------------------------------------------------- claim C18
\* C18: every request is made right after a sleep of REQUEST_DELAY seconds of
\* its own: the event before a request is such a sleep, every sleep is followed
\* by its request, and there are as many sleeps as requests
C18_DelayBeforeEveryRequest ==
    /\ \A i \in EventsOf("request") :
          i > 1 /\ trace[i - 1] = <<"sleep", REQUEST_DELAY>>
    /\ \A i \in EventsOf("sleep") :
          /\ trace[i] = <<"sleep", REQUEST_DELAY>>
          /\ i < Len(trace)
          /\ trace[i + 1][1] = "request"
    /\ Cardinality(EventsOf("sleep")) = Cardinality(EventsOf("request"))
    /\ Cardinality(EventsOf("request")) = Len(requests)

\* a finished run that made requests of all three kinds, each after its delay
C18_Witness ==
    /\ pc = "done"
    /\ RequestsOf("listing") # Empty
    /\ RequestsOf("detail") # Empty
    /\ Cardinality(EventsOf("sleep")) = Len(requests)
    /\ Len(requests) >= 3

====
